---- MODULE Spec2Model ----
(***************************************************************************)
(* Pitch tracker of Summary.py: the zone graph (NEIGHBORS, ZONES_ORDER,    *)
(* ALL_ZONES), the PitchTracker dataclass (target, pitch_counter,          *)
(* pitch_log) with its operations set_target, log_pitch, clear_pitch_log   *)
(* and generate_summary, the static helper is_neighbor and the module      *)
(* function get_heat_color.                                                *)
(*                                                                         *)
(* Conventions.  Python's None is the value None below.  A raised          *)
(* ValueError is recorded by its kind: "InvalidZone" for the message       *)
(* "Invalid zone: ..." and "NoTargetSet" for "Please set a target first."; *)
(* "" means the call returned.  A float with one decimal place is held as  *)
(* an integer number of tenths (66.7 is 667).                              *)
(***************************************************************************)
EXTENDS Integers, Sequences, FiniteSets, TLC

VARIABLES
    target,         \* PitchTracker.target: a zone, or None
    pitch_counter,  \* PitchTracker.pitch_counter
    pitch_log,      \* PitchTracker.pitch_log: sequence of PitchEntry
    call,           \* the last call: its name, arguments, the tracker state it
                    \* started from, what it raised and what it returned
    hist,           \* history: reset is the most recent of construction ("init"),
                    \* a successful log_pitch and a clear_pitch_log; set is TRUE
                    \* iff a set_target has succeeded since then
    other           \* a second PitchTracker instance: its three fields and its
                    \* history, while the calls go to the first

vars == <<target, pitch_counter, pitch_log, call, hist, other>>

-----------------------------------------------------------------------------
(* Bounds and inputs of the model *)

\* Longest pitch_log the tracker specification explores.
MaxLog == 3

\* Most pitches the two trackers of SpecTwo hold together.
MaxLogTwo == 2

\* Zones the callers of SpecTwo pass in.
TwoZones == {"Q2", "T1"}

\* Largest count passed to get_heat_color.
MaxHeat == 120

\* Zones the callers of Spec pass in: an interior zone, an edge zone that lists
\* it as a neighbour without being listed back, and a corner.
SampleZones == {"Q2", "T1", "TL"}

\* Arguments outside the 25 labels: a wrong case, the empty string, a zone
\* number that does not exist.
BadZones == {"q1", "", "Q10"}

\* The one of them the callers of Spec pass in.
BadSample == {"q1"}

-----------------------------------------------------------------------------
(* Zone graph *)

None == "None"

NEIGHBORS ==
    [ Q1 |-> <<"Q2", "Q4", "T1", "L1">>, Q2 |-> <<"Q1", "Q3", "Q5", "T2">>,
      Q3 |-> <<"Q2", "Q6", "T3", "R1">>, Q4 |-> <<"Q1", "Q5", "Q7", "L2">>,
      Q5 |-> <<"Q2", "Q4", "Q6", "Q8">>, Q6 |-> <<"Q3", "Q5", "Q9", "R2">>,
      Q7 |-> <<"Q4", "Q8", "L3", "B1">>, Q8 |-> <<"Q5", "Q7", "Q9", "B2">>,
      Q9 |-> <<"Q6", "Q8", "R3", "B3">>,
      T1 |-> <<"Q1", "Q2", "T2">>, T2 |-> <<"Q2", "T1", "T3">>,
      T3 |-> <<"Q2", "Q3", "T2">>,
      L1 |-> <<"Q1", "L2">>, L2 |-> <<"Q4", "L1", "L3">>, L3 |-> <<"Q7", "L2">>,
      R1 |-> <<"Q3", "R2">>, R2 |-> <<"Q6", "R1", "R3">>, R3 |-> <<"Q9", "R2">>,
      B1 |-> <<"Q7", "B2">>, B2 |-> <<"Q8", "B1", "B3">>, B3 |-> <<"Q9", "B2">> ]

ZONES_ORDER ==
    << <<"TL", "T1", "T2", "T3", "TR">>,
       <<"L1", "Q1", "Q2", "Q3", "R1">>,
       <<"L2", "Q4", "Q5", "Q6", "R2">>,
       <<"L3", "Q7", "Q8", "Q9", "R3">>,
       <<"BL", "B1", "B2", "B3", "BR">> >>

RECURSIVE Flatten(_)
Flatten(rows) ==
    IF rows = << >> THEN << >> ELSE Head(rows) \o Flatten(Tail(rows))

\* [z for row in ZONES_ORDER for z in row]
ALL_ZONES == Flatten(ZONES_ORDER)

\* Python's "x in list"
In(x, list) == \E i \in DOMAIN list : list[i] = x

\* NEIGHBORS.get(zone, [])
NeighborsGet(zone) ==
    IF zone \in DOMAIN NEIGHBORS THEN NEIGHBORS[zone] ELSE << >>

\* Mutant of is_neighbor: a listing in either direction counts.
is_neighbor_either_way(t, a) ==
    In(a, NeighborsGet(t)) \/ In(t, NeighborsGet(a))

is_neighbor(t, a) == In(a, NeighborsGet(t))

\* What _validate_zone raises for the zone ("" when it returns).
validate_zone(zone) ==
    IF ~In(zone, ALL_ZONES) THEN "InvalidZone" ELSE ""

\* Python truthiness of an Optional[str]: None and "" are false.
Truthy(v) == v # None /\ v # ""

-----------------------------------------------------------------------------
(* PitchTracker *)

PitchEntry(n, t, a, acc) ==
    [pitch_num |-> n, target |-> t, actual |-> a, accuracy |-> acc]

\* The tracker's three fields, as a call finds them.
Fields ==
    [target |-> target, pitch_counter |-> pitch_counter, pitch_log |-> pitch_log]

\* Mutant of OwnLists: one list object serves every instance.
SharedLists == FALSE

\* pitch_log: List[PitchEntry] = field(default_factory=list): every instance is
\* constructed with a list object of its own.
OwnLists == TRUE

\* The second instance once the list of the first has become log (by
\* pitch_log.append or pitch_log.clear): untouched when the lists are two
\* objects, holding the same entries when they are one.
OtherAfter(log) ==
    IF OwnLists THEN other ELSE [other EXCEPT !.pitch_log = log]

Returned(op, args, ret) ==
    [op |-> op, args |-> args, pre |-> Fields, hist |-> hist, other |-> other,
     raised |-> "", ret |-> ret]

Raised(op, args, err) ==
    [op |-> op, args |-> args, pre |-> Fields, hist |-> hist, other |-> other,
     raised |-> err, ret |-> << >>]

Init ==
    /\ target = None
    /\ pitch_counter = 0
    /\ pitch_log = << >>
    /\ hist = [reset |-> "init", set |-> FALSE]
    /\ other = [target |-> None, pitch_counter |-> 0, pitch_log |-> << >>,
                hist |-> [reset |-> "init", set |-> FALSE]]
    /\ call = Returned("init", << >>, << >>)

\* Mutant of set_target: the zone is stored without being validated.
set_target_unchecked(zone) ==
    /\ target' = zone
    /\ call' = Returned("set_target", <<zone>>, << >>)
    /\ hist' = [hist EXCEPT !.set = TRUE]
    /\ UNCHANGED <<pitch_counter, pitch_log, other>>

\* Mutant of set_target: a pending target is not overwritten.
set_target_keeps_pending(zone) ==
    \/ /\ validate_zone(zone) # ""
       /\ call' = Raised("set_target", <<zone>>, validate_zone(zone))
       /\ UNCHANGED <<target, pitch_counter, pitch_log, hist, other>>
    \/ /\ validate_zone(zone) = ""
       /\ target' = IF Truthy(target) THEN target ELSE zone
       /\ call' = Returned("set_target", <<zone>>, << >>)
       /\ hist' = [hist EXCEPT !.set = TRUE]
       /\ UNCHANGED <<pitch_counter, pitch_log, other>>

set_target(zone) ==
    \/ /\ validate_zone(zone) # ""
       /\ call' = Raised("set_target", <<zone>>, validate_zone(zone))
       /\ UNCHANGED <<target, pitch_counter, pitch_log, hist, other>>
    \/ /\ validate_zone(zone) = ""
       /\ target' = zone
       /\ call' = Returned("set_target", <<zone>>, << >>)
       /\ hist' = [hist EXCEPT !.set = TRUE]
       /\ UNCHANGED <<pitch_counter, pitch_log, other>>

\* Mutant of NextCounter: the counter stops at 1.
NextCounterStuck(c) == IF c < 1 THEN 1 ELSE c

\* self.pitch_counter = 1 if self.pitch_counter < 1 else self.pitch_counter + 1
NextCounter(c) == IF c < 1 THEN 1 ELSE c + 1

\* Mutant of Accuracy: the neighbour lookup goes from actual to target.
AccuracySwapped(t, a) ==
    IF t = a THEN 10
    ELSE IF is_neighbor(a, t) THEN 5
    ELSE 0

\* accuracy = 0; if t == a: 10; elif is_neighbor(t, a): 5
Accuracy(t, a) ==
    IF t = a THEN 10
    ELSE IF is_neighbor(t, a) THEN 5
    ELSE 0

\* Mutant of log_pitch: the target is tested before the zone is validated.
log_pitch_target_first(actual) ==
    \/ /\ ~Truthy(target)
       /\ call' = Raised("log_pitch", <<actual>>, "NoTargetSet")
       /\ UNCHANGED <<target, pitch_counter, pitch_log, hist, other>>
    \/ /\ Truthy(target)
       /\ validate_zone(actual) # ""
       /\ call' = Raised("log_pitch", <<actual>>, validate_zone(actual))
       /\ UNCHANGED <<target, pitch_counter, pitch_log, hist, other>>
    \/ /\ Truthy(target)
       /\ validate_zone(actual) = ""
       /\ LET entry == PitchEntry(NextCounter(pitch_counter), target, actual,
                                  Accuracy(target, actual))
          IN /\ pitch_counter' = NextCounter(pitch_counter)
             /\ pitch_log' = Append(pitch_log, entry)
             /\ target' = None
             /\ call' = Returned("log_pitch", <<actual>>, <<entry>>)
       /\ hist' = [reset |-> "log_pitch", set |-> FALSE]
       /\ other' = OtherAfter(pitch_log')

\* Mutant of log_pitch: the target is not cleared after logging.
log_pitch_keeps_target(actual) ==
    \/ /\ validate_zone(actual) # ""
       /\ call' = Raised("log_pitch", <<actual>>, validate_zone(actual))
       /\ UNCHANGED <<target, pitch_counter, pitch_log, hist, other>>
    \/ /\ validate_zone(actual) = ""
       /\ ~Truthy(target)
       /\ call' = Raised("log_pitch", <<actual>>, "NoTargetSet")
       /\ UNCHANGED <<target, pitch_counter, pitch_log, hist, other>>
    \/ /\ validate_zone(actual) = ""
       /\ Truthy(target)
       /\ LET entry == PitchEntry(NextCounter(pitch_counter), target, actual,
                                  Accuracy(target, actual))
          IN /\ pitch_counter' = NextCounter(pitch_counter)
             /\ pitch_log' = Append(pitch_log, entry)
             /\ target' = target
             /\ call' = Returned("log_pitch", <<actual>>, <<entry>>)
       /\ hist' = [reset |-> "log_pitch", set |-> FALSE]
       /\ other' = OtherAfter(pitch_log')

\* Mutant of log_pitch: the new entry is put at the front of the log.
log_pitch_prepends(actual) ==
    \/ /\ validate_zone(actual) # ""
       /\ call' = Raised("log_pitch", <<actual>>, validate_zone(actual))
       /\ UNCHANGED <<target, pitch_counter, pitch_log, hist, other>>
    \/ /\ validate_zone(actual) = ""
       /\ ~Truthy(target)
       /\ call' = Raised("log_pitch", <<actual>>, "NoTargetSet")
       /\ UNCHANGED <<target, pitch_counter, pitch_log, hist, other>>
    \/ /\ validate_zone(actual) = ""
       /\ Truthy(target)
       /\ LET entry == PitchEntry(NextCounter(pitch_counter), target, actual,
                                  Accuracy(target, actual))
          IN /\ pitch_counter' = NextCounter(pitch_counter)
             /\ pitch_log' = <<entry>> \o pitch_log
             /\ target' = None
             /\ call' = Returned("log_pitch", <<actual>>, <<entry>>)
       /\ hist' = [reset |-> "log_pitch", set |-> FALSE]
       /\ other' = OtherAfter(pitch_log')

\* Mutant of log_pitch: the target is cleared before the zone is validated.
log_pitch_clears_early(actual) ==
    \/ /\ validate_zone(actual) # ""
       /\ call' = Raised("log_pitch", <<actual>>, validate_zone(actual))
       /\ target' = None
       /\ UNCHANGED <<pitch_counter, pitch_log, hist, other>>
    \/ /\ validate_zone(actual) = ""
       /\ ~Truthy(target)
       /\ call' = Raised("log_pitch", <<actual>>, "NoTargetSet")
       /\ UNCHANGED <<target, pitch_counter, pitch_log, hist, other>>
    \/ /\ validate_zone(actual) = ""
       /\ Truthy(target)
       /\ LET entry == PitchEntry(NextCounter(pitch_counter), target, actual,
                                  Accuracy(target, actual))
          IN /\ pitch_counter' = NextCounter(pitch_counter)
             /\ pitch_log' = Append(pitch_log, entry)
             /\ target' = None
             /\ call' = Returned("log_pitch", <<actual>>, <<entry>>)
       /\ hist' = [reset |-> "log_pitch", set |-> FALSE]
       /\ other' = OtherAfter(pitch_log')

log_pitch(actual) ==
    \/ /\ validate_zone(actual) # ""
       /\ call' = Raised("log_pitch", <<actual>>, validate_zone(actual))
       /\ UNCHANGED <<target, pitch_counter, pitch_log, hist, other>>
    \/ /\ validate_zone(actual) = ""
       /\ ~Truthy(target)
       /\ call' = Raised("log_pitch", <<actual>>, "NoTargetSet")
       /\ UNCHANGED <<target, pitch_counter, pitch_log, hist, other>>
    \/ /\ validate_zone(actual) = ""
       /\ Truthy(target)
       /\ LET entry == PitchEntry(NextCounter(pitch_counter), target, actual,
                                  Accuracy(target, actual))
          IN /\ pitch_counter' = NextCounter(pitch_counter)
             /\ pitch_log' = Append(pitch_log, entry)
             /\ target' = None
             /\ call' = Returned("log_pitch", <<actual>>, <<entry>>)
       /\ hist' = [reset |-> "log_pitch", set |-> FALSE]
       /\ other' = OtherAfter(pitch_log')

\* Mutant of clear_pitch_log: the counter is not reset.
clear_pitch_log_keeps_counter ==
    /\ pitch_log' = << >>
    /\ pitch_counter' = pitch_counter
    /\ target' = None
    /\ call' = Returned("clear_pitch_log", << >>, << >>)
    /\ hist' = [reset |-> "clear_pitch_log", set |-> FALSE]
    /\ other' = OtherAfter(pitch_log')

\* Mutant of clear_pitch_log: the target is left as it was.
clear_pitch_log_keeps_target ==
    /\ pitch_log' = << >>
    /\ pitch_counter' = 0
    /\ target' = target
    /\ call' = Returned("clear_pitch_log", << >>, << >>)
    /\ hist' = [reset |-> "clear_pitch_log", set |-> FALSE]
    /\ other' = OtherAfter(pitch_log')

clear_pitch_log ==
    /\ pitch_log' = << >>
    /\ pitch_counter' = 0
    /\ target' = None
    /\ call' = Returned("clear_pitch_log", << >>, << >>)
    /\ hist' = [reset |-> "clear_pitch_log", set |-> FALSE]
    /\ other' = OtherAfter(pitch_log')

-----------------------------------------------------------------------------
(* Summary *)

\* Mutant of CountAccuracy: entries scoring acc or more are counted.
RECURSIVE CountAccuracyAtLeast(_, _)
CountAccuracyAtLeast(log, acc) ==
    IF log = << >> THEN 0
    ELSE (IF Head(log).accuracy >= acc THEN 1 ELSE 0)
         + CountAccuracyAtLeast(Tail(log), acc)

\* sum(1 for p in log if p.accuracy == acc)
RECURSIVE CountAccuracy(_, _)
CountAccuracy(log, acc) ==
    IF log = << >> THEN 0
    ELSE (IF Head(log).accuracy = acc THEN 1 ELSE 0)
         + CountAccuracy(Tail(log), acc)

\* Mutant of RoundPct: the percentage is cut to one decimal, not rounded.
TruncPct(num, den) == (num * 1000) \div den

\* round(num / den * 100.0, 1) in tenths, for integers num >= 0 and den > 0:
\* the nearest tenth, a tie going to the even one.
RoundPct(num, den) ==
    LET q == (num * 1000) \div den
        r == (num * 1000) % den
    IN IF 2 * r < den THEN q
       ELSE IF 2 * r > den THEN q + 1
       ELSE IF q % 2 = 0 THEN q ELSE q + 1

\* Mutant of Tally: the tally is by target zone.
RECURSIVE TallyByTarget(_, _)
TallyByTarget(log, counts) ==
    IF log = << >> THEN counts
    ELSE LET p == Head(log)
         IN TallyByTarget(Tail(log),
                          IF p.target \in DOMAIN counts
                          THEN [counts EXCEPT ![p.target] = @ + 1]
                          ELSE counts)

\* counts = {z: 0 for z in ALL_ZONES}; for p in log: if p.actual in counts: += 1
RECURSIVE Tally(_, _)
Tally(log, counts) ==
    IF log = << >> THEN counts
    ELSE LET p == Head(log)
         IN Tally(Tail(log),
                  IF p.actual \in DOMAIN counts
                  THEN [counts EXCEPT ![p.actual] = @ + 1]
                  ELSE counts)

ZeroCounts == [z \in {ALL_ZONES[i] : i \in DOMAIN ALL_ZONES} |-> 0]

\* fmt(z, v): "{z} ({v}, {pct:.1f}%)" with pct = v / total * 100.0, or the
\* literal "{z} (0,0%)" when total is 0; held as the fields of the string.
Fmt(z, v, total) ==
    IF total # 0
    THEN [zone |-> z, form |-> "(v, p%)", count |-> v, pct |-> RoundPct(v, total)]
    ELSE [zone |-> z, form |-> "(0,0%)", count |-> 0, pct |-> 0]

\* Mutant of Donut: the breakdown starts with Accurate.
DonutAccurateFirst(miss, close, accurate) ==
    << [label |-> "Accurate", count |-> accurate],
       [label |-> "Close", count |-> close],
       [label |-> "Miss", count |-> miss] >>

\* The "donut" list of the snapshot.
Donut(miss, close, accurate) ==
    << [label |-> "Miss", count |-> miss],
       [label |-> "Close", count |-> close],
       [label |-> "Accurate", count |-> accurate] >>

generate_summary(log) ==
    LET total == Len(log)
        accurate == CountAccuracy(log, 10)
        close == CountAccuracy(log, 5)
        miss == total - accurate - close
        accuracy_pct == IF total # 0 THEN RoundPct(accurate + close, total) ELSE 0
        counts == Tally(log, ZeroCounts)
    IN [ summary |-> [ total_pitches |-> total,
                       accurate_10 |-> accurate,
                       close_5 |-> close,
                       miss_0 |-> miss,
                       accuracy_pct |-> accuracy_pct ],
         donut |-> Donut(miss, close, accurate),
         heatmap |-> [ zones_order |-> ZONES_ORDER,
                       labels_grid |->
                           [r \in DOMAIN ZONES_ORDER |->
                               [c \in DOMAIN ZONES_ORDER[r] |->
                                   Fmt(ZONES_ORDER[r][c],
                                       counts[ZONES_ORDER[r][c]], total)]],
                       counts_grid |->
                           [r \in DOMAIN ZONES_ORDER |->
                               [c \in DOMAIN ZONES_ORDER[r] |->
                                   counts[ZONES_ORDER[r][c]]]],
                       counts_by_zone |-> counts ],
         log |-> [i \in DOMAIN log |->
                     [ pitch_num |-> log[i].pitch_num,
                       target |-> log[i].target,
                       actual |-> log[i].actual,
                       accuracy |-> log[i].accuracy ]] ]

\* Mutant of GenerateSummary: the summary consumes the pending target.
GenerateSummaryClearsTarget ==
    /\ call' = Returned("generate_summary", << >>, <<generate_summary(pitch_log)>>)
    /\ target' = None
    /\ UNCHANGED <<pitch_counter, pitch_log, hist, other>>

GenerateSummary ==
    /\ call' = Returned("generate_summary", << >>, <<generate_summary(pitch_log)>>)
    /\ UNCHANGED <<target, pitch_counter, pitch_log, hist, other>>

\* A call of the static method PitchTracker.is_neighbor.
IsNeighbor(t, a) ==
    /\ call' = Returned("is_neighbor", <<t, a>>, <<is_neighbor(t, a)>>)
    /\ UNCHANGED <<target, pitch_counter, pitch_log, hist, other>>

\* The caller turns to its other PitchTracker instance: the next calls go to
\* that one.
Switch ==
    /\ target' = other.target
    /\ pitch_counter' = other.pitch_counter
    /\ pitch_log' = other.pitch_log
    /\ hist' = other.hist
    /\ other' = [target |-> target, pitch_counter |-> pitch_counter,
                 pitch_log |-> pitch_log, hist |-> hist]
    /\ call' = Returned("switch", << >>, << >>)

-----------------------------------------------------------------------------
(* Heat colour helper *)

\* Mutant of get_heat_color: the thresholds are tested with <=.
get_heat_color_inclusive(v) ==
    IF v = 0 THEN "#ffffff"
    ELSE IF v <= 3 THEN "#a3d5ff"
    ELSE IF v <= 6 THEN "#3399ff"
    ELSE "#004c99"

get_heat_color(v) ==
    IF v = 0 THEN "#ffffff"
    ELSE IF v < 3 THEN "#a3d5ff"
    ELSE IF v < 6 THEN "#3399ff"
    ELSE "#004c99"

\* A call of the module function get_heat_color.
GetHeatColor(v) ==
    /\ call' = Returned("get_heat_color", <<v>>, <<get_heat_color(v)>>)
    /\ UNCHANGED <<target, pitch_counter, pitch_log, hist, other>>

-----------------------------------------------------------------------------
(* Specifications *)

AllZones == {ALL_ZONES[i] : i \in DOMAIN ALL_ZONES}

\* One tracker driven by any sequence of calls with sample arguments.
Next ==
    \/ \E zone \in SampleZones \cup BadSample : set_target(zone)
    \/ \E actual \in SampleZones \cup BadSample :
          log_pitch(actual) /\ Len(pitch_log') <= MaxLog
    \/ clear_pitch_log
    \/ GenerateSummary

Spec == Init /\ [][Next]_vars

\* One tracker used for one pitch at a time (set_target, log_pitch,
\* clear_pitch_log) with every zone as target and as actual.
NextOnePitch ==
    \/ \E zone \in AllZones \cup BadZones : pitch_log = << >> /\ set_target(zone)
    \/ \E actual \in AllZones \cup BadZones : pitch_log = << >> /\ log_pitch(actual)
    \/ clear_pitch_log
    \/ GenerateSummary

SpecOnePitch == Init /\ [][NextOnePitch]_vars

\* The zone graph alone: is_neighbor on every pair of arguments.
NextGraph ==
    \E t \in AllZones \cup BadZones, a \in AllZones \cup BadZones : IsNeighbor(t, a)

SpecGraph == Init /\ [][NextGraph]_vars

\* One-pitch sessions with every zone, and is_neighbor called on every pair
\* of arguments between sessions.
NextZones ==
    \/ NextOnePitch
    \/ \E t \in AllZones \cup BadZones, a \in AllZones \cup BadZones :
          pitch_log = << >> /\ target = None /\ IsNeighbor(t, a)

SpecZones == Init /\ [][NextZones]_vars

\* Two trackers, the calls of their two sessions interleaved in any order.
NextTwo ==
    \/ \E zone \in TwoZones \cup BadSample : set_target(zone)
    \/ \E actual \in TwoZones \cup BadSample :
          /\ log_pitch(actual)
          /\ Len(pitch_log') + Len(other'.pitch_log) <= MaxLogTwo
    \/ clear_pitch_log
    \/ GenerateSummary
    \/ Switch

SpecTwo == Init /\ [][NextTwo]_vars

\* The heat colour helper alone, on every count up to MaxHeat.
NextHeat == \E v \in 0..MaxHeat : GetHeatColor(v)

SpecHeat == Init /\ [][NextHeat]_vars

-----------------------------------------------------------------------------
(* Properties *)

\* The 25 zone labels of the field grid.
Labels ==
    { "TL", "TR", "BL", "BR",
      "T1", "T2", "T3", "L1", "L2", "L3", "R1", "R2", "R3", "B1", "B2", "B3",
      "Q1", "Q2", "Q3", "Q4", "Q5", "Q6", "Q7", "Q8", "Q9" }

\* The last call was op and it returned / raised err.
Ok(op) == call.op = op /\ call.raised = ""
Failed(op, err) == call.op = op /\ call.raised = err

\* C1: in every state reachable by set_target, log_pitch, clear_pitch_log and
\* generate_summary calls with any arguments, failing calls included,
\* pitch_counter equals the length of pitch_log.
CounterIsLogLength == pitch_counter = Len(pitch_log)

\* C1 witness: a call failed on a tracker that holds two or more pitches.
CounterIsLogLengthWitness ==
    /\ call.raised # ""
    /\ Len(pitch_log) >= 2
    /\ pitch_counter = Len(pitch_log)

\* C2: the i-th entry of pitch_log has pitch_num i, and the numbering restarts
\* at 1 with the first log_pitch after a clear_pitch_log.
PitchNumsAreOneToN ==
    /\ \A i \in DOMAIN pitch_log : pitch_log[i].pitch_num = i
    /\ (Ok("log_pitch") /\ call.hist.reset = "clear_pitch_log")
          => (Len(pitch_log) = 1 /\ call.ret[1].pitch_num = 1)

\* C2 witness: the first pitch logged after a clear is numbered 1, and a log of
\* MaxLog pitches is numbered 1..MaxLog.
PitchNumsRestartWitness ==
    /\ Ok("log_pitch")
    /\ call.hist.reset = "clear_pitch_log"
    /\ pitch_log[1].pitch_num = 1

\* C3: log_pitch with a valid zone fails with NoTargetSet exactly when no
\* set_target has succeeded since the most recent of construction, a
\* successful log_pitch and a clear_pitch_log; a successful log_pitch leaves
\* the target unset.
NoTargetSetIffNotSetSince ==
    /\ (call.op = "log_pitch" /\ call.args[1] \in Labels)
          => (call.raised = "NoTargetSet" <=> ~call.hist.set)
    /\ Ok("log_pitch") => target = None

\* C3 witness: a second log_pitch right after a successful one fails.
SecondLogPitchFailsWitness ==
    /\ Failed("log_pitch", "NoTargetSet")
    /\ call.hist = [reset |-> "log_pitch", set |-> FALSE]
    /\ call.args[1] \in Labels

\* C4: set_target and log_pitch fail with InvalidZone whenever the zone is not
\* one of the 25 labels, in every tracker state; log_pitch checks the zone
\* first, so an invalid zone gives InvalidZone even when no target is set.
InvalidZoneRaised ==
    (call.op \in {"set_target", "log_pitch"} /\ call.args[1] \notin Labels)
        => call.raised = "InvalidZone"

\* C4 witness: log_pitch with an invalid zone and no target raised InvalidZone.
InvalidZoneBeforeNoTargetWitness ==
    /\ Failed("log_pitch", "InvalidZone")
    /\ call.args[1] \notin Labels
    /\ call.pre.target = None

\* The adjacency list of zone t lists zone a.
Listed(t, a) ==
    /\ t \in DOMAIN NEIGHBORS
    /\ a \in {NEIGHBORS[t][i] : i \in DOMAIN NEIGHBORS[t]}

\* The score the description gives a pitch at a aimed at t.
Score(t, a) == IF a = t THEN 10 ELSE IF Listed(t, a) THEN 5 ELSE 0

\* C5: a successful log_pitch(a) performed while target = t returns and
\* appends the entry with target t, actual a, pitch_num the new pitch_counter
\* and accuracy 10 if a = t, else 5 if a is in the adjacency list of t, else 0
\* (target Q1: Q1 gives 10, Q2 gives 5, Q9 gives 0).
LogPitchEntry ==
    Ok("log_pitch") =>
        LET t == call.pre.target
            a == call.args[1]
            e == call.ret[1]
        IN /\ e = [pitch_num |-> pitch_counter, target |-> t, actual |-> a,
                   accuracy |-> Score(t, a)]
           /\ pitch_log = Append(call.pre.pitch_log, e)
           /\ (t = "Q1" /\ a = "Q1") => e.accuracy = 10
           /\ (t = "Q1" /\ a = "Q2") => e.accuracy = 5
           /\ (t = "Q1" /\ a = "Q9") => e.accuracy = 0

\* C5 witness: a pitch at Q2 aimed at T1 was logged and scored 5.
LogPitchEntryWitness ==
    /\ Ok("log_pitch")
    /\ call.pre.target = "T1"
    /\ call.args[1] = "Q2"
    /\ call.ret[1].accuracy = 5
    /\ pitch_log = <<call.ret[1]>>

\* What generate_summary reports in the current state.
Report == generate_summary(pitch_log)

\* Number of log entries with the given accuracy / actual zone.
NumAccuracy(acc) == Cardinality({i \in DOMAIN pitch_log : pitch_log[i].accuracy = acc})
NumActual(z) == Cardinality({i \in DOMAIN pitch_log : pitch_log[i].actual = z})

\* C6: clear_pitch_log never fails, and after it the log is empty, the counter
\* 0, the target unset and generate_summary reports total_pitches 0,
\* accuracy_pct 0.0 and count 0 for each of the 25 zones.
ClearResetsAll ==
    /\ ENABLED clear_pitch_log
    /\ call.op = "clear_pitch_log" =>
          /\ call.raised = ""
          /\ pitch_log = << >> /\ pitch_counter = 0 /\ target = None
          /\ Report.summary.total_pitches = 0
          /\ Report.summary.accuracy_pct = 0
          /\ \A z \in Labels : Report.heatmap.counts_by_zone[z] = 0
          /\ \A r \in 1..5 : \A c \in 1..5 : Report.heatmap.counts_grid[r][c] = 0

\* C6 witness: a tracker with pitches logged and a target set was cleared.
ClearResetsAllWitness ==
    /\ Ok("clear_pitch_log")
    /\ Len(call.pre.pitch_log) >= 2
    /\ call.pre.target \in Labels
    /\ Report.summary.total_pitches = 0

\* C7: generate_summary reports total_pitches = length of the log, accurate_10
\* and close_5 = the numbers of entries with accuracy 10 and 5, and miss_0 =
\* total - accurate - close; the three counts add up to the total and none is
\* negative.
SummaryCounts ==
    LET s == Report.summary
    IN /\ s.total_pitches = Len(pitch_log)
       /\ s.accurate_10 = NumAccuracy(10)
       /\ s.close_5 = NumAccuracy(5)
       /\ s.miss_0 = s.total_pitches - s.accurate_10 - s.close_5
       /\ s.accurate_10 + s.close_5 + s.miss_0 = s.total_pitches
       /\ s.accurate_10 >= 0 /\ s.close_5 >= 0 /\ s.miss_0 >= 0
       /\ Ok("generate_summary") => call.ret[1].summary = s

\* C7 witness: a summary was generated of a log with an exact pitch, a close
\* one and a miss.
SummaryCountsWitness ==
    /\ Ok("generate_summary")
    /\ call.ret[1].summary.accurate_10 = 1
    /\ call.ret[1].summary.close_5 = 1
    /\ call.ret[1].summary.miss_0 = 1

\* C8: counts_by_zone has exactly the 25 zones as keys and maps each zone to
\* the number of log entries whose actual zone it is, never the target zone.
CountsByActualZone ==
    LET counts == Report.heatmap.counts_by_zone
    IN /\ DOMAIN counts = Labels
       /\ \A z \in Labels : counts[z] = NumActual(z)
       /\ Ok("generate_summary") => call.ret[1].heatmap.counts_by_zone = counts

\* C8 witness: a summary of pitches that landed at Q2 twice and at T1 once,
\* none of them aimed at T1, and never at TL although TL was aimed at.
CountsByActualZoneWitness ==
    /\ Ok("generate_summary")
    /\ call.ret[1].heatmap.counts_by_zone["Q2"] = 2
    /\ call.ret[1].heatmap.counts_by_zone["T1"] = 1
    /\ call.ret[1].heatmap.counts_by_zone["TL"] = 0
    /\ \E i \in DOMAIN pitch_log : pitch_log[i].target = "TL"
    /\ \A i \in DOMAIN pitch_log : pitch_log[i].target # "T1"

\* |x|
Abs(x) == IF x < 0 THEN -x ELSE x

\* C9: accuracy_pct is (accurate + close) / total * 100 rounded to one decimal
\* place (the nearest tenth) when total > 0 and 0.0 when total = 0; accuracies
\* [10, 5, 0] give 66.7.
AccuracyPctRounded ==
    LET pct == Report.summary.accuracy_pct
        total == Len(pitch_log)
        hits == NumAccuracy(10) + NumAccuracy(5)
    IN /\ total = 0 => pct = 0
       /\ total > 0 => 2 * Abs(pct * total - 1000 * hits) <= total
       /\ [i \in DOMAIN pitch_log |-> pitch_log[i].accuracy] = <<10, 5, 0>>
             => pct = 667
       /\ Ok("generate_summary") => call.ret[1].summary.accuracy_pct = pct

\* C9 witness: a summary of a log with accuracies 10, 5, 0 reported 66.7.
AccuracyPctRoundedWitness ==
    /\ Ok("generate_summary")
    /\ [i \in DOMAIN pitch_log |-> pitch_log[i].accuracy] = <<10, 5, 0>>
    /\ call.ret[1].summary.accuracy_pct = 667

\* C10: the adjacency data is symmetric: is_neighbor(z1, z2) equals
\* is_neighbor(z2, z1) for all zones z1 and z2.
NeighborsSymmetric ==
    (Ok("is_neighbor") /\ call.args[1] \in Labels /\ call.args[2] \in Labels)
        => (call.ret[1] <=> Listed(call.args[2], call.args[1]))

\* C11: generate_summary is a pure read: it never fails, leaves target,
\* pitch_counter and pitch_log unchanged, its log section lists the entries of
\* pitch_log in log order, and a second call right after it returns an equal
\* snapshot.
SummaryIsPureRead ==
    call.op = "generate_summary" =>
        /\ call.raised = ""
        /\ Fields = call.pre
        /\ call.ret[1].log = pitch_log
        /\ generate_summary(pitch_log) = call.ret[1]

\* C11 witness: a summary was generated of a tracker with pitches logged and a
\* target pending.
SummaryIsPureReadWitness ==
    /\ Ok("generate_summary")
    /\ Len(pitch_log) >= 2
    /\ target \in Labels
    /\ call.ret[1].log = pitch_log

\* C13: every entry of pitch_log has a target and an actual among the 25 zones
\* and an accuracy in {0, 5, 10}; a target that is set is one of the 25 zones.
EntriesAreValid ==
    /\ \A i \in DOMAIN pitch_log :
          /\ pitch_log[i].target \in Labels
          /\ pitch_log[i].actual \in Labels
          /\ pitch_log[i].accuracy \in {0, 5, 10}
    /\ target # None => target \in Labels

\* C13 witness: an invalid zone was just refused by a tracker that holds
\* pitches and a pending target.
EntriesAreValidWitness ==
    /\ call.raised = "InvalidZone"
    /\ Len(pitch_log) >= 2
    /\ target \in Labels

\* C16: a successful log_pitch appends exactly one entry at the end and leaves
\* the earlier entries as they were; a successful set_target changes only
\* target.
LogIsAppendOnly ==
    /\ Ok("log_pitch") =>
          /\ Len(pitch_log) = Len(call.pre.pitch_log) + 1
          /\ SubSeq(pitch_log, 1, Len(call.pre.pitch_log)) = call.pre.pitch_log
          /\ pitch_log[Len(pitch_log)] = call.ret[1]
    /\ Ok("set_target") =>
          /\ pitch_counter = call.pre.pitch_counter
          /\ pitch_log = call.pre.pitch_log

\* C16 witness: a pitch was logged on top of two earlier ones.
LogIsAppendOnlyWitness ==
    /\ Ok("log_pitch")
    /\ Len(call.pre.pitch_log) = 2
    /\ Len(pitch_log) = 3

\* C17: a call that fails (set_target or log_pitch with InvalidZone, log_pitch
\* with NoTargetSet) leaves target, pitch_counter and pitch_log as they were;
\* a pending target survives a log_pitch that fails on its zone.
FailedCallChangesNothing ==
    /\ call.raised # "" => Fields = call.pre
    /\ (Failed("log_pitch", "InvalidZone") /\ call.pre.target \in Labels)
          => (target = call.pre.target /\ Truthy(target))

\* C17 witness: log_pitch failed on an invalid zone with a target pending.
FailedCallChangesNothingWitness ==
    /\ Failed("log_pitch", "InvalidZone")
    /\ call.pre.target \in Labels
    /\ target = call.pre.target
    /\ Len(pitch_log) >= 1

\* set_target(z2) has just overwritten a pending target z1 and the step is a
\* successful log_pitch(a): the entry has target z2, is scored against z2 and
\* is the one entry added.
OverwrittenTargetIsLogged ==
    (/\ Ok("set_target") /\ call.pre.target \in Labels
     /\ call'.op = "log_pitch" /\ call'.raised = "")
        => /\ call'.ret[1].target = call.args[1]
           /\ call'.ret[1].accuracy = Score(call.args[1], call'.args[1])
           /\ pitch_log' = Append(pitch_log, call'.ret[1])

\* C12: set_target with a valid zone succeeds in every tracker state and
\* overwrites a pending target: after set_target(z1); set_target(z2);
\* log_pitch(a) exactly one entry is appended, with target z2 and scored
\* against z2.
SetTargetOverwrites ==
    /\ [](call.op = "set_target" /\ call.args[1] \in Labels
             => call.raised = "" /\ target = call.args[1])
    /\ [][OverwrittenTargetIsLogged]_vars

\* C12 witness: set_target replaced a different pending target on a tracker
\* that holds pitches.
SetTargetOverwritesWitness ==
    /\ Ok("set_target")
    /\ call.pre.target \in Labels
    /\ call.pre.target # target
    /\ target = call.args[1]
    /\ Len(pitch_log) >= 1

\* Position of a heat colour in the scale white, light, medium, dark blue.
Tier(color) ==
    CASE color = "#ffffff" -> 0
      [] color = "#a3d5ff" -> 1
      [] color = "#3399ff" -> 2
      [] color = "#004c99" -> 3

\* C14: get_heat_color returns for every non-negative count: #ffffff for 0,
\* #a3d5ff for 1 and 2, #3399ff for 3, 4 and 5, #004c99 for 6 and more, and
\* the tier never decreases as the count increases.
HeatColorTiers ==
    /\ \A v \in 0..MaxHeat : ENABLED GetHeatColor(v)
    /\ call.op = "get_heat_color" =>
          LET v == call.args[1]
              color == call.ret[1]
          IN /\ call.raised = ""
             /\ v = 0 => color = "#ffffff"
             /\ v \in {1, 2} => color = "#a3d5ff"
             /\ v \in {3, 4, 5} => color = "#3399ff"
             /\ v >= 6 => color = "#004c99"
             /\ \A u \in 0..v : Tier(get_heat_color(u)) <= Tier(color)
             /\ \A u \in v..MaxHeat : Tier(color) <= Tier(get_heat_color(u))

\* C14 witness: the count 6, the first of the darkest tier, was coloured.
HeatColorTiersWitness ==
    /\ Ok("get_heat_color")
    /\ call.args[1] = 6
    /\ call.ret[1] = "#004c99"

\* The four corner zones, which have no adjacency list.
Corners == {"TL", "TR", "BL", "BR"}

\* C15: is_neighbor(target, actual) is true iff actual is in the adjacency list
\* of target; for a corner target it is false for every actual, so a pitch
\* logged against a corner scores 10 when actual is that corner and 0
\* otherwise, never 5.
NeighborIsOneWayLookup ==
    /\ Ok("is_neighbor") =>
          /\ call.ret[1] <=> Listed(call.args[1], call.args[2])
          /\ call.args[1] \in Corners => call.ret[1] = FALSE
    /\ (Ok("log_pitch") /\ call.pre.target \in Corners) =>
          call.ret[1].accuracy = IF call.args[1] = call.pre.target THEN 10 ELSE 0

\* C15 witness: a pitch at T1, next to the corner TL on the grid, aimed at TL
\* scored 0.
CornerTargetWitness ==
    /\ Ok("log_pitch")
    /\ call.pre.target = "TL"
    /\ call.args[1] = "T1"
    /\ call.ret[1].accuracy = 0

\* C19: the miss_0 that generate_summary reports (total - accurate - close) is
\* the number of log entries with accuracy 0, and the donut lists Miss, Close,
\* Accurate in that order with the counts miss_0, close_5, accurate_10.
MissCountAndDonutOrder ==
    Ok("generate_summary") =>
        LET s == call.ret[1].summary
            d == call.ret[1].donut
        IN /\ s.miss_0 = Cardinality({i \in DOMAIN call.pre.pitch_log :
                                          call.pre.pitch_log[i].accuracy = 0})
           /\ d = << [label |-> "Miss", count |-> s.miss_0],
                     [label |-> "Close", count |-> s.close_5],
                     [label |-> "Accurate", count |-> s.accurate_10] >>

\* C19 witness: a summary of two misses and one exact pitch.
MissCountAndDonutOrderWitness ==
    /\ Ok("generate_summary")
    /\ NumAccuracy(0) = 2
    /\ call.ret[1].donut[1] = [label |-> "Miss", count |-> 2]
    /\ call.ret[1].donut[2] = [label |-> "Close", count |-> 0]
    /\ call.ret[1].donut[3] = [label |-> "Accurate", count |-> 1]

\* C18: two PitchTracker instances are independent: a set_target, log_pitch,
\* clear_pitch_log or generate_summary call on one leaves target,
\* pitch_counter and pitch_log of the other as they were, however the calls of
\* the two sessions interleave.
InstancesIndependent ==
    call.op \in {"set_target", "log_pitch", "clear_pitch_log", "generate_summary"}
        => /\ other.target = call.other.target
           /\ other.pitch_counter = call.other.pitch_counter
           /\ other.pitch_log = call.other.pitch_log

\* C18 witness: a pitch was logged on one tracker while the other held a pitch
\* of its own and a pending target.
InstancesIndependentWitness ==
    /\ Ok("log_pitch")
    /\ Len(pitch_log) = 1
    /\ Len(other.pitch_log) = 1
    /\ other.pitch_log # pitch_log
    /\ other.target \in Labels

====
